---- MODULE Spec2Model ----
(***************************************************************************)
(* The liquidation dispatcher of the bot (protocol/liquidation.rs): the    *)
(* candidate table kept by Liquidation::run, the batches it receives from  *)
(* the planner over the channel, the idle iterator that fires candidates,  *)
(* and Liquidation::liquidate with the fresh re-evaluation it makes.       *)
(*                                                                         *)
(* Numbers.  The program computes on U256 with the fixed-point scale       *)
(* WAD = 10^18.  TLC's integers are 32 bits wide, so the model keeps the   *)
(* structure of every formula and reduces the scale: WAD is 10^2, asset    *)
(* decimals are 0..1, and a pool fee is counted in units of 1/WAD (the     *)
(* program's ppm * 10^12).  The inputs are small enough that no model      *)
(* product leaves TLC's range; the U256 operators that panic (subtraction  *)
(* below zero, division by zero) are modelled as panics of the task.       *)
(***************************************************************************)
EXTENDS Integers, Sequences, FiniteSets, TLC

\* ------------------------------------------------------------------ bounds
\* No batch is taken from the channel once an age has reached MaxAge.
MaxAge == 3
\* The token-pair catalogs parsed have up to MaxCatalog entries.
MaxCatalog == 3
\* The accounts pick_markets is called on have up to MaxPositions positions.
MaxPositions == 2
\* The timestamps the market functions are called at range over 0..MaxTime.
MaxTime == 32
\* The logs decoded have up to MaxTopics topics.
MaxTopics == 2
\* The chain the service follows has blocks 0..MaxBlock.
MaxBlock == 3
\* Batches the planner may have in flight in the channel.
MaxPending == 1
\* The configured backup windows range over 0..MaxBackup.
MaxBackup == 2

\* --------------------------------------------------------------- constants
WAD == 100
\* u32::MAX in the model's fee unit
U32_MAX == 429496
\* the gas units of is_profitable
GAS_UNITS == 1500

\* Addresses are numbers, compared as ordered_addresses compares them:
\* 0 is Address::zero(), NoAddress is the None of an Option<Address>.
ZeroAddress == 0
NoAddress == 0 - 1
Tokens == {1, 2, 3}
Markets == {11, 12}
Accounts == {21, 22}
market_weth_address == 11

\* ------------------------------------------------------ fixed-point math
mul_div_down(a, b, c) == (a * b) \div c

mul_div_up(a, b, c) == (a * b + c - 1) \div c

mul_wad_down(a, b) == mul_div_down(a, b, WAD)

mul_wad_up(a, b) == mul_div_up(a, b, WAD)

div_wad_down(a, b) == mul_div_down(a, WAD, b)

div_wad_up(a, b) == mul_div_up(a, WAD, b)

exp10(n) == 10 ^ n

Min(a, b) == IF a < b THEN a ELSE b

\* ------------------------------------------------------------ Repay plan
\* The default plan as it would be with a debt to beat from the start.
DefaultRepayDebtFloor ==
    [price |-> 0, decimals |-> 0,
     market_to_seize |-> 0 - 1, market_to_seize_value |-> 0,
     market_to_repay |-> 0 - 1, market_to_liquidate_debt |-> 5000,
     total_value_collateral |-> 0, total_adjusted_collateral |-> 0,
     total_value_debt |-> 0, total_adjusted_debt |-> 0,
     repay_asset_address |-> 0,
     collateral_asset_address |-> 0]

DefaultRepay ==
    [price |-> 0, decimals |-> 0,
     market_to_seize |-> NoAddress, market_to_seize_value |-> 0,
     market_to_repay |-> NoAddress, market_to_liquidate_debt |-> 0,
     total_value_collateral |-> 0, total_adjusted_collateral |-> 0,
     total_value_debt |-> 0, total_adjusted_debt |-> 0,
     repay_asset_address |-> ZeroAddress,
     collateral_asset_address |-> ZeroAddress]

\* The debt of one market position: every fixed borrow with its penalty when
\* past due, then the floating borrow.
RECURSIVE FixedDebt(_, _, _)
FixedDebt(positions, penalty_rate, timestamp) ==
    IF positions = <<>> THEN 0
    ELSE LET p == Head(positions)
             borrowed == p.principal + p.fee
             penalty == IF p.maturity < timestamp
                        THEN mul_wad_down(borrowed,
                                 (timestamp - p.maturity) * penalty_rate)
                        ELSE 0
         IN  borrowed + penalty
               + FixedDebt(Tail(positions), penalty_rate, timestamp)

\* The debt of a market position as it would be with no penalty.
MarketDebtAssetsNoPenalty(market, timestamp) ==
    FixedDebt(market.fixed_borrow_positions, 0, timestamp)
      + market.floating_borrow_assets

MarketDebtAssets(market, timestamp) ==
    FixedDebt(market.fixed_borrow_positions, market.penalty_rate, timestamp)
      + market.floating_borrow_assets

\* The iteration as it would be if a tie left the market chosen before.
PickStepFirstWins(repay, market, prices, timestamp, assets) ==
    LET collateral_value ==
            mul_div_down(market.floating_deposit_assets, prices[market.market],
                         exp10(market.decimals))
        adjusted_collateral == mul_wad_down(collateral_value, market.adjust_factor)
        seize == market.is_collateral
                   /\ (adjusted_collateral > repay.market_to_seize_value
                         \/ repay.market_to_seize = 0 - 1)
        r1 == IF market.is_collateral
              THEN [repay EXCEPT
                      !.total_value_collateral = @ + collateral_value,
                      !.total_adjusted_collateral = @ + adjusted_collateral,
                      !.market_to_seize_value =
                          IF seize THEN adjusted_collateral ELSE @,
                      !.market_to_seize = IF seize THEN market.market ELSE @,
                      !.collateral_asset_address =
                          IF seize THEN assets[market.market] ELSE @]
              ELSE repay
        market_debt_value ==
            mul_div_up(MarketDebtAssets(market, timestamp), prices[market.market],
                       exp10(market.decimals))
        adjusted_debt == div_wad_up(market_debt_value, market.adjust_factor)
        liquidate == adjusted_debt > r1.market_to_liquidate_debt
                       \/ r1.market_to_repay = 0 - 1
    IN  [r1 EXCEPT
           !.total_value_debt = @ + market_debt_value,
           !.total_adjusted_debt = @ + adjusted_debt,
           !.market_to_liquidate_debt = IF liquidate THEN adjusted_debt ELSE @,
           !.market_to_repay = IF liquidate THEN market.market ELSE @,
           !.price = IF liquidate THEN prices[market.market] ELSE @,
           !.decimals = IF liquidate THEN market.decimals ELSE @,
           !.repay_asset_address = IF liquidate THEN assets[market.market] ELSE @]

\* One iteration of the loop of pick_markets.
PickStep(repay, market, prices, timestamp, assets) ==
    LET collateral_value ==
            mul_div_down(market.floating_deposit_assets, prices[market.market],
                         exp10(market.decimals))
        adjusted_collateral == mul_wad_down(collateral_value, market.adjust_factor)
        seize == market.is_collateral
                   /\ adjusted_collateral >= repay.market_to_seize_value
        r1 == IF market.is_collateral
              THEN [repay EXCEPT
                      !.total_value_collateral = @ + collateral_value,
                      !.total_adjusted_collateral = @ + adjusted_collateral,
                      !.market_to_seize_value =
                          IF seize THEN adjusted_collateral ELSE @,
                      !.market_to_seize = IF seize THEN market.market ELSE @,
                      !.collateral_asset_address =
                          IF seize THEN assets[market.market] ELSE @]
              ELSE repay
        market_debt_value ==
            mul_div_up(MarketDebtAssets(market, timestamp), prices[market.market],
                       exp10(market.decimals))
        adjusted_debt == div_wad_up(market_debt_value, market.adjust_factor)
        liquidate == adjusted_debt >= r1.market_to_liquidate_debt
    IN  [r1 EXCEPT
           !.total_value_debt = @ + market_debt_value,
           !.total_adjusted_debt = @ + adjusted_debt,
           !.market_to_liquidate_debt = IF liquidate THEN adjusted_debt ELSE @,
           !.market_to_repay = IF liquidate THEN market.market ELSE @,
           !.price = IF liquidate THEN prices[market.market] ELSE @,
           !.decimals = IF liquidate THEN market.decimals ELSE @,
           !.repay_asset_address = IF liquidate THEN assets[market.market] ELSE @]

RECURSIVE PickFrom(_, _, _, _, _)
PickFrom(repay, market_account, prices, timestamp, assets) ==
    IF market_account = <<>> THEN repay
    ELSE PickFrom(PickStep(repay, Head(market_account), prices, timestamp, assets),
                  Tail(market_account), prices, timestamp, assets)

pick_markets(market_account, prices, timestamp, assets) ==
    PickFrom(DefaultRepay, market_account, prices, timestamp, assets)

\* pick_markets indexes prices and assets by every position's market, and
\* divides by the adjust factor: it panics when a key is missing or the
\* factor is zero.
PickPanics(market_account, prices, assets) ==
    \E i \in 1..Len(market_account) :
        \/ market_account[i].market \notin DOMAIN prices
        \/ market_account[i].market \notin DOMAIN assets
        \/ market_account[i].adjust_factor = 0

\* ------------------------------------------------------ token pair catalog
\* The key as it would be if the two tokens were kept in the order given.
ordered_addressesAsGiven(token0, token1) == <<token0, token1>>

ordered_addresses(token0, token1) ==
    IF token0 < token1 THEN <<token0, token1>> ELSE <<token1, token0>>

\* The top of the heap as it would be if it were the first fee pushed.
PeekFirstPushed(heap) == heap[1]

\* A heap of fees is kept as the sequence of the fees pushed; peek is its
\* minimum (BinaryHeap<Reverse<u32>>).
Peek(heap) == CHOOSE f \in {heap[i] : i \in 1..Len(heap)} :
                  \A j \in 1..Len(heap) : f <= heap[j]

Push(pairs, key, fee) ==
    IF key \in DOMAIN pairs
    THEN [pairs EXCEPT ![key] = Append(@, fee)]
    ELSE [k \in DOMAIN pairs \cup {key} |->
             IF k = key THEN <<fee>> ELSE pairs[k]]

NoPairs == [k \in {} |-> <<>>]

RECURSIVE ParseFrom(_, _)
ParseFrom(acc, json_pairs) ==
    IF json_pairs = <<>> THEN acc
    ELSE LET e == Head(json_pairs)
         IN  ParseFrom([pairs |-> Push(acc.pairs, ordered_addresses(e[1], e[2]), e[3]),
                        tokens |-> acc.tokens \cup {e[1], e[2]}],
                       Tail(json_pairs))

parse_token_pairs(json_pairs) ==
    ParseFrom([pairs |-> NoPairs, tokens |-> {}], json_pairs)

\* ----------------------------------------------------------- the planner
\* The results get_flash_pair can return: the scan of the token set follows
\* the HashSet's order, so among tokens that tie on the lowest fee any one
\* can be the result.
get_flash_pair(repay, token_pairs, tokens) ==
    LET collateral == repay.collateral_asset_address
        repay_asset == repay.repay_asset_address
        routes == {t \in tokens :
                     /\ t # collateral
                     /\ ordered_addresses(t, collateral) \in DOMAIN token_pairs
                     /\ Peek(token_pairs[ordered_addresses(t, collateral)]) < U32_MAX}
        best == {t \in routes : \A u \in routes :
                     Peek(token_pairs[ordered_addresses(t, collateral)])
                       <= Peek(token_pairs[ordered_addresses(u, collateral)])}
    IN  IF collateral # repay_asset
        THEN IF ordered_addresses(collateral, repay_asset) \in DOMAIN token_pairs
             THEN {<<collateral,
                     Peek(token_pairs[ordered_addresses(collateral, repay_asset)])>>}
             ELSE {<<collateral, 0>>}
        ELSE IF routes = {}
             THEN {<<ZeroAddress, U32_MAX>>}
             ELSE {<<t, Peek(token_pairs[ordered_addresses(t, collateral)])>> :
                      t \in best}

target_health == 125 * (WAD \div 100)

CloseAdjustFactor(repay) ==
    div_wad_up(mul_wad_down(repay.total_adjusted_collateral, repay.total_value_debt),
               mul_wad_up(repay.total_adjusted_debt, repay.total_value_collateral))

CloseIncentive(liquidation_incentive) ==
    WAD + liquidation_incentive.liquidator + liquidation_incentive.lenders
      + mul_wad_down(liquidation_incentive.liquidator, liquidation_incentive.lenders)

calculate_close_factor(repay, liquidation_incentive) ==
    div_wad_up(
        target_health
          - div_wad_up(repay.total_adjusted_collateral, repay.total_adjusted_debt),
        target_health
          - mul_wad_down(CloseAdjustFactor(repay), CloseIncentive(liquidation_incentive)))

\* The U256 operations of calculate_close_factor that panic: a division by
\* zero, a subtraction below zero.
CloseFactorPanics(repay, liquidation_incentive) ==
    \/ repay.total_adjusted_debt = 0
    \/ mul_wad_up(repay.total_adjusted_debt, repay.total_value_collateral) = 0
    \/ div_wad_up(repay.total_adjusted_collateral, repay.total_adjusted_debt)
          > target_health
    \/ mul_wad_down(CloseAdjustFactor(repay), CloseIncentive(liquidation_incentive))
          >= target_health

\* U256::MAX / WAD, the threshold under which the liquidator's ceiling is
\* deflated; U256_MAX stands for the unbounded ceiling.
U256_MAX == 2000000000

\* The two caps of max_repay_assets that are values: the close-factor cap
\* and the seize cap.
CloseFactorCap(repay, liquidation_incentive) ==
    mul_wad_up(repay.total_value_debt,
               Min(WAD, calculate_close_factor(repay, liquidation_incentive)))

SeizeCap(repay, liquidation_incentive) ==
    div_wad_up(repay.market_to_seize_value,
               WAD + liquidation_incentive.liquidator + liquidation_incentive.lenders)

\* max_repay_assets as it would be without the last min, and without the
\* seize cap.
max_repay_assetsUnclamped(repay, liquidation_incentive, max_liquidator_assets) ==
    Min(mul_div_up(Min(CloseFactorCap(repay, liquidation_incentive),
                       SeizeCap(repay, liquidation_incentive)),
                   exp10(repay.decimals), repay.price),
        IF max_liquidator_assets < U256_MAX \div WAD
        THEN div_wad_down(max_liquidator_assets, WAD + liquidation_incentive.lenders)
        ELSE max_liquidator_assets)

max_repay_assetsNoSeizeCap(repay, liquidation_incentive, max_liquidator_assets) ==
    Min(Min(mul_div_up(CloseFactorCap(repay, liquidation_incentive),
                       exp10(repay.decimals), repay.price),
            IF max_liquidator_assets < U256_MAX \div WAD
            THEN div_wad_down(max_liquidator_assets, WAD + liquidation_incentive.lenders)
            ELSE max_liquidator_assets),
        repay.market_to_liquidate_debt)

max_repay_assets(repay, liquidation_incentive, max_liquidator_assets) ==
    Min(Min(mul_div_up(
                Min(mul_wad_up(repay.total_value_debt,
                               Min(WAD, calculate_close_factor(repay, liquidation_incentive))),
                    div_wad_up(repay.market_to_seize_value,
                               WAD + liquidation_incentive.liquidator
                                   + liquidation_incentive.lenders)),
                exp10(repay.decimals), repay.price),
            IF max_liquidator_assets < U256_MAX \div WAD
            THEN div_wad_down(max_liquidator_assets, WAD + liquidation_incentive.lenders)
            ELSE max_liquidator_assets),
        repay.market_to_liquidate_debt)

max_profit(repay, max_repay, liquidation_incentive) ==
    mul_wad_down(mul_div_up(max_repay, repay.price, exp10(repay.decimals)),
                 liquidation_incentive.liquidator + liquidation_incentive.lenders)

\* One model fee unit is 1/WAD: the program's exp10(12) per ppm.
FEE_TO_WAD == 1

max_cost(repay, max_repay, liquidation_incentive, swap_fee, gas_price, gas_cost, eth_price) ==
    LET value == mul_div_down(max_repay, repay.price, exp10(repay.decimals))
    IN  mul_wad_down(value, liquidation_incentive.lenders)
          + mul_wad_down(value, swap_fee * FEE_TO_WAD)
          + mul_wad_down(gas_price * gas_cost, eth_price)

\* WAD / exp10(16), the least profit worth a transaction: 100 of the
\* program's units, the smallest positive amount at the model's scale.
PROFIT_DUST == 1

\* is_profitable for one of the flash pairs get_flash_pair can return.
is_profitable(repay, liquidation_incentive, last_gas_price, eth_price, flash_pair) ==
    LET max_repay ==
            mul_wad_down(max_repay_assets(repay, liquidation_incentive, U256_MAX),
                         WAD + WAD \div 10000)
              + mul_div_up(WAD, exp10(repay.decimals), repay.price)
        profit == max_profit(repay, max_repay, liquidation_incentive)
        cost == max_cost(repay, max_repay, liquidation_incentive, flash_pair[2],
                         last_gas_price, GAS_UNITS, eth_price)
    IN  [profitable |-> profit > cost /\ profit - cost > PROFIT_DUST,
         max_repay |-> max_repay,
         pool_pair |-> flash_pair[1],
         fee |-> flash_pair[2]]

IsProfitablePanics(repay, liquidation_incentive) ==
    CloseFactorPanics(repay, liquidation_incentive) \/ repay.price = 0

\* ------------------------------------------------ the planner's batches
\* An Account snapshot: its address and the revision of its positions.
AccountSnapshot(a, r) == [address |-> a, rev |-> r]

\* The plans a batch carries: one that names the markets, and the default
\* plan of an account with no position (market_to_repay is None).
PlannedRepay ==
    [DefaultRepay EXCEPT
       !.price = WAD, !.decimals = 1,
       !.market_to_seize = 11, !.market_to_seize_value = 800,
       !.market_to_repay = 12, !.market_to_liquidate_debt = 1000,
       !.total_value_collateral = 1000, !.total_adjusted_collateral = 800,
       !.total_value_debt = 900, !.total_adjusted_debt = 1000,
       !.repay_asset_address = 2, !.collateral_asset_address = 1]

\* The entries a batch can hold for an account: (Account, Repay)
BatchEntries(a) ==
    {[account |-> AccountSnapshot(a, 1), repay |-> PlannedRepay],
     [account |-> AccountSnapshot(a, 2), repay |-> DefaultRepay]}

\* HashMap<Address, (Account, Repay)>
BatchLiquidations ==
    UNION {{m \in [S -> UNION {BatchEntries(a) : a \in S}] :
              \A a \in S : m[a] \in BatchEntries(a)} : S \in SUBSET Accounts}

Incentive == [liquidator |-> 5, lenders |-> 1]

MarketAssets == (11 :> 1) @@ (12 :> 2)

MarketFeeds == (11 :> 31) @@ (12 :> 32)

\* LiquidationData
LiquidationData ==
    {d \in [action : {"Update", "Insert"},
            liquidations : BatchLiquidations,
            eth_price : {WAD},
            gas_price : {0, 1},
            liquidation_incentive : {Incentive},
            markets : {<<11, 12>>, <<12>>, <<>>},
            assets : {MarketAssets},
            price_feeds : {MarketFeeds}] :
       d.markets # <<11, 12>> => d.gas_price = 0}

\* ------------------------------------------------------------- the state
VARIABLES
    backup,                 \* Liquidation.backup
    liquidate_unprofitable, \* Liquidation.liquidate_unprofitable
    token_pairs, tokens,    \* the catalog parsed by Liquidation::new
    liquidations,           \* the candidate table: address -> (account, repay, age)
    liquidations_iter,      \* <<>> is None, <<S>> is Some(iterator with S left)
    eth_price, gas_price, liquidation_incentive, markets, price_feeds, assets,
    pending,                \* batches in flight in the channel
    closed,                 \* the sender was dropped
    phase,                  \* where the dispatcher task is
    cur,                    \* the candidate liquidate was called for
    fresh,                  \* what is_profitable_async fetched and decided
    tx,                     \* the transaction liquidate submitted
    last,                   \* what the last turn of the loop did: its kind, the
                            \* candidate visited, the batch received
    ticks,                  \* with a backup window, while only Update batches
                            \* came: per account, the number of consecutive
                            \* latest batches holding it
    call                    \* a call of one of the planner's functions made
                            \* outside run: its arguments and its result

config == <<backup, liquidate_unprofitable, token_pairs, tokens>>
params == <<eth_price, gas_price, liquidation_incentive, markets, price_feeds, assets>>
table == <<liquidations, liquidations_iter>>
channel == <<pending, closed>>
flight == <<cur, fresh, tx>>
vars == <<config, params, table, channel, phase, flight, last, ticks, call>>

Catalogs == {<<>>, << <<1, 2, 3>>, <<2, 1, 1>>, <<3, 1, 5>> >>}

\* error: what made the task panic, when it did
NoFresh == [adjusted_collateral |-> 0, adjusted_debt |-> 0, profitable |-> FALSE,
            market_to_repay |-> NoAddress, market_to_seize |-> NoAddress,
            market_to_liquidate_debt |-> 0, error |-> "none"]

NoTx == [repay_market |-> NoAddress, seize_market |-> NoAddress,
         borrower |-> NoAddress, max_repay |-> 0,
         pool_pair |-> ZeroAddress, fee |-> 0]

NoTicks == [a \in Accounts |-> 0]

NoBatch == [action |-> "none", liquidations |-> [a \in {} |-> 0]]

\* No call under way outside run.
NoCall == [op |-> "none"]

\* The record of a turn also carries a trace of the turns since the latest
\* batch, in the runs that start with one (<<>> is no trace): the accounts the
\* latest batch held and, per account, how many times (up to 2) the iterator
\* yielded it and how many times it was handed to liquidate.
NoTrace == <<>>

TraceOf(reported) ==
    <<[reported |-> reported, visited |-> NoTicks, fired |-> NoTicks]>>

Did(kind, a) == [kind |-> kind, account |-> a, batch |-> NoBatch, trace |-> NoTrace]

\* The record of a turn that yields no candidate: the trace is as it was.
Turn(kind, old) == [Did(kind, NoAddress) EXCEPT !.trace = old.trace]

\* The record of a turn in which the iterator yields candidate a.
Visit(kind, a, old) ==
    [Did(kind, a) EXCEPT
       !.trace = IF old.trace = NoTrace THEN NoTrace
                 ELSE <<[old.trace[1] EXCEPT
                           !.visited[a] = Min(2, @ + 1),
                           !.fired[a] = IF kind = "fired" THEN Min(2, @ + 1) ELSE @]>>]

\* The configurations explored: every backup window, and with backup 0 every
\* setting of liquidate_unprofitable and every catalog.
Configs ==
    {c \in [backup : 0..MaxBackup, liquidate_unprofitable : BOOLEAN,
            catalog : Catalogs] :
       c.backup > 0 => c.liquidate_unprofitable /\ c.catalog # <<>>}

Init ==
    /\ \E c \in Configs :
          /\ backup = c.backup
          /\ liquidate_unprofitable = c.liquidate_unprofitable
          /\ token_pairs = parse_token_pairs(c.catalog).pairs
          /\ tokens = parse_token_pairs(c.catalog).tokens
    /\ liquidations = [a \in {} |-> 0]
    /\ liquidations_iter = <<>>
    /\ eth_price = 0
    /\ gas_price = 0
    /\ liquidation_incentive = <<>>
    /\ markets = <<>>
    /\ price_feeds = [m \in {} |-> 0]
    /\ assets = [m \in {} |-> 0]
    /\ pending = 0
    /\ closed = FALSE
    /\ phase = "Idle"
    /\ cur = NoAddress
    /\ fresh = NoFresh
    /\ tx = NoTx
    /\ last = Did("start", NoAddress)
    /\ ticks = [only_updates |-> TRUE, count |-> NoTicks]
    /\ call = NoCall

\* ------------------------------------------------------------ the planner
\* The planner sends a batch (its content is drawn when it is received).
Send ==
    /\ ~closed
    /\ pending < MaxPending
    /\ pending' = pending + 1
    /\ UNCHANGED <<call, config, params, table, closed, phase, flight, last, ticks>>

\* The planner ends: the sender is dropped.
Close ==
    /\ ~closed
    /\ closed' = TRUE
    /\ UNCHANGED <<call, config, params, table, pending, phase, flight, last, ticks>>

\* --------------------------------------------------- Liquidation::run
AgeOf(old, a) == IF a \in DOMAIN old THEN old[a].age ELSE 0

\* Update as the table would be with a new candidate starting at age 0.
UpdateTableNewAtZero(old, new, b) ==
    [a \in DOMAIN new |->
        [account |-> new[a].account, repay |-> new[a].repay,
         age |-> IF b > 0 /\ a \in DOMAIN old THEN old[a].age + 1 ELSE 0]]

\* Update as the table would be if the entries absent from the batch stayed.
UpdateTableKeepsOld(old, new, b) ==
    [a \in DOMAIN old \cup DOMAIN new |->
        IF a \in DOMAIN new
        THEN [account |-> new[a].account, repay |-> new[a].repay,
              age |-> IF b > 0 THEN AgeOf(old, a) + 1 ELSE 0]
        ELSE old[a]]

\* Update as the table would be if a carried-over age were not incremented.
UpdateTableNoAging(old, new, b) ==
    [a \in DOMAIN new |->
        [account |-> new[a].account, repay |-> new[a].repay,
         age |-> IF b > 0 THEN (IF a \in DOMAIN old THEN old[a].age ELSE 1) ELSE 0]]

\* LiquidationAction::Update
UpdateTable(old, new, b) ==
    [a \in DOMAIN new |->
        [account |-> new[a].account, repay |-> new[a].repay,
         age |-> IF b > 0 THEN AgeOf(old, a) + 1 ELSE 0]]

\* Insert as the table would be if the age were incremented whatever the
\* backup window.
InsertTableAlwaysAges(old, new, b) ==
    [a \in DOMAIN old \cup DOMAIN new |->
        LET e == IF a \in DOMAIN old
                 THEN old[a]
                 ELSE [account |-> new[a].account, repay |-> new[a].repay, age |-> 0]
        IN  IF a \in DOMAIN new THEN [e EXCEPT !.age = @ + 1] ELSE e]

\* LiquidationAction::Insert
InsertTable(old, new, b) ==
    [a \in DOMAIN old \cup DOMAIN new |->
        LET e == IF a \in DOMAIN old
                 THEN old[a]
                 ELSE [account |-> new[a].account, repay |-> new[a].repay, age |-> 0]
        IN  IF a \in DOMAIN new /\ b > 0 THEN [e EXCEPT !.age = @ + 1] ELSE e]

Ticked(t, d, b) ==
    IF b = 0 THEN t
    ELSE IF t.only_updates /\ d.action = "Update"
    THEN [t EXCEPT !.count = [a \in Accounts |->
                      IF a \in DOMAIN d.liquidations THEN @[a] + 1 ELSE 0]]
    ELSE [only_updates |-> FALSE, count |-> NoTicks]

\* Ok(Some(data)): a batch is received and applied.
RecvBatch ==
    /\ phase = "Idle"
    /\ pending > 0
    /\ \A a \in DOMAIN liquidations : liquidations[a].age < MaxAge
    /\ \E d \in LiquidationData :
          /\ liquidations' =
                IF d.action = "Update"
                THEN UpdateTable(liquidations, d.liquidations, backup)
                ELSE InsertTable(liquidations, d.liquidations, backup)
          /\ liquidations_iter' = <<DOMAIN liquidations'>>
          /\ eth_price' = d.eth_price
          /\ gas_price' = d.gas_price
          /\ liquidation_incentive' = <<d.liquidation_incentive>>
          /\ markets' = d.markets
          /\ price_feeds' = d.price_feeds
          /\ assets' = d.assets
          /\ last' = [kind |-> "batch", account |-> NoAddress,
                       batch |-> [action |-> d.action, liquidations |-> d.liquidations],
                       trace |-> IF last.trace = NoTrace THEN NoTrace
                                 ELSE TraceOf(DOMAIN d.liquidations)]
          /\ ticks' = Ticked(ticks, d, backup)
    /\ pending' = pending - 1
    /\ UNCHANGED <<call, config, closed, phase, flight>>

\* Ok(None): the channel is closed and empty; the arm is empty and the loop
\* goes on.
RecvClosed ==
    /\ phase = "Idle"
    /\ pending = 0
    /\ closed
    /\ last' = Turn("closed", last)
    /\ UNCHANGED <<call, config, params, table, channel, phase, flight, ticks>>

\* The test of the idle iterator as it would be with >= for >.
OldEnoughAtWindow(age, b) == b = 0 \/ age >= b

\* if backup == 0 || *age > backup
OldEnough(age, b) == b = 0 \/ age > b

\* The timeout as it would be if an exhausted iterator were made again.
TimeoutRestarts ==
    /\ phase = "Idle"
    /\ pending = 0
    /\ ~closed
    /\ IF liquidations_iter = <<>>
       THEN /\ last' = Turn("idle", last)
            /\ UNCHANGED <<table, phase, cur>>
       ELSE IF liquidations_iter[1] = {}
       THEN /\ liquidations_iter' = <<DOMAIN liquidations>>
            /\ last' = Turn("exhausted", last)
            /\ UNCHANGED <<liquidations, phase, cur>>
       ELSE \E a \in liquidations_iter[1] :
            /\ liquidations_iter' = <<liquidations_iter[1] \ {a}>>
            /\ UNCHANGED liquidations
            /\ IF OldEnough(liquidations[a].age, backup)
               THEN /\ last' = Visit("fired", a, last)
                    /\ IF liquidations[a].repay.market_to_repay # NoAddress
                       THEN phase' = "Evaluating" /\ cur' = a
                       ELSE UNCHANGED <<phase, cur>>
               ELSE /\ last' = Visit("skipped", a, last)
                    /\ UNCHANGED <<phase, cur>>
    /\ UNCHANGED <<call, config, params, channel, fresh, tx, ticks>>

\* Err(_): the timeout elapsed with no batch; the iterator advances.
Timeout ==
    /\ phase = "Idle"
    /\ pending = 0
    /\ ~closed
    /\ IF liquidations_iter = <<>>
       THEN /\ last' = Turn("idle", last)
            /\ UNCHANGED <<table, phase, cur>>
       ELSE IF liquidations_iter[1] = {}
       THEN /\ liquidations_iter' = <<>>
            /\ last' = Turn("exhausted", last)
            /\ UNCHANGED <<liquidations, phase, cur>>
       ELSE \E a \in liquidations_iter[1] :
            /\ liquidations_iter' = <<liquidations_iter[1] \ {a}>>
            /\ UNCHANGED liquidations
            /\ IF OldEnough(liquidations[a].age, backup)
               THEN /\ last' = Visit("fired", a, last)
                    /\ IF liquidations[a].repay.market_to_repay # NoAddress
                       THEN phase' = "Evaluating" /\ cur' = a
                       ELSE UNCHANGED <<phase, cur>>
               ELSE /\ last' = Visit("skipped", a, last)
                    /\ UNCHANGED <<phase, cur>>
    /\ UNCHANGED <<call, config, params, channel, fresh, tx, ticks>>

\* ------------------------------------------- Liquidation::liquidate
\* What the multicalls of is_profitable_async return: previewer.exactly
\* (the account's positions), auditor.liquidation_incentive and the asset
\* prices; "new_err" is Multicall::new failing, "call_err" a failed call.
Position(m, c, dep, bor, fixed) ==
    [market |-> m, is_collateral |-> c,
     floating_deposit_assets |-> dep, floating_borrow_assets |-> bor,
     fixed_borrow_positions |-> fixed, penalty_rate |-> 1,
     adjust_factor |-> IF m = 11 THEN 80 ELSE 90, decimals |-> 1]

PastDue == << [maturity |-> 0, principal |-> 70, fee |-> 10] >>

\* Market 11 holds the collateral, alone (with or without a debt of its own)
\* or with a debt in market 12: none, healthy, at health factor 1, under
\* water.
Positions11 == {Position(11, TRUE, 100, b, <<>>) : b \in {0, 90}}

Positions12 ==
    {Position(12, FALSE, 0, b, <<>>) : b \in {45, 72, 90}}
      \cup {Position(12, FALSE, 0, 0, PastDue)}

MarketAccounts ==
    {<<p>> : p \in Positions11}
      \cup {<<Position(11, TRUE, 100, 0, <<>>), p>> : p \in Positions12}

ChainPrices == (11 :> WAD) @@ (12 :> WAD)

Now == 10

FreshResponses ==
    [kind : {"ok"}, market_account : MarketAccounts,
     liquidation_incentive : {Incentive}, prices : {ChainPrices}, timestamp : {Now}]
      \cup [kind : {"new_err", "call_err"}, market_account : {<<>>},
            liquidation_incentive : {Incentive}, prices : {ChainPrices},
            timestamp : {Now}]

\* auditor.account_liquidity: the chain's own sums over the same positions,
\* (adjusted_collateral, adjusted_debt).
AccountLiquidity(f) ==
    LET r == pick_markets(f.market_account, f.prices, f.timestamp, MarketAssets)
    IN  <<r.total_adjusted_collateral, r.total_adjusted_debt>>

\* markets.iter().zip(prices): the price of every market of the batch
ZipPrices(ms, chain) == [m \in {ms[i] : i \in 1..Len(ms)} |-> chain[m]]

\* is_profitable_async gives up (returns None) unless the account has debt
\* and its health factor does not exceed WAD.
StillUnderWater(adjusted_collateral, adjusted_debt) ==
    /\ adjusted_debt # 0
    /\ ~(div_wad_down(adjusted_collateral, adjusted_debt) > WAD)

\* if !profitable && !self.liquidate_unprofitable { return Ok(()) }
Submits(profitable, unprofitable_too) == ~(~profitable /\ ~unprofitable_too)

\* The unwraps and indexings of is_profitable_async that panic.
AsyncPanics(f, ms, feeds) ==
    \/ f.kind = "new_err"
    \/ \E i \in 1..Len(ms) : ms[i] \notin DOMAIN feeds

EvalPanics(f, prices, as, repay) ==
    \/ PickPanics(f.market_account, prices, as)
    \/ market_weth_address \notin DOMAIN prices
    \/ IsProfitablePanics(repay, f.liquidation_incentive)

\* Which of them it is: Multicall::new(..).unwrap(), price_feeds[market],
\* prices[&market.market] and prices[&self.market_weth_address], or the
\* arithmetic of the planner.
AsyncPanicCause(f) == IF f.kind = "new_err" THEN "multicall" ELSE "price_feed"

MissingPrice(f, prices) ==
    \/ \E i \in 1..Len(f.market_account) :
           f.market_account[i].market \notin DOMAIN prices
    \/ market_weth_address \notin DOMAIN prices

EvalPanicCause(f, prices) == IF MissingPrice(f, prices) THEN "price" ELSE "math"

ToIdle ==
    /\ phase' = "Idle"
    /\ cur' = NoAddress
    /\ fresh' = NoFresh
    /\ tx' = NoTx

\* A panic unwinds liquidate and run: the task of the dispatcher is over.
Panic(cause) ==
    /\ phase' = "Panicked"
    /\ fresh' = [NoFresh EXCEPT !.error = cause]
    /\ UNCHANGED <<cur, tx>>

\* The call as it would be if it did not name the queued candidate.
LiquidateCallNoBorrower(queued, r) ==
    [repay_market |-> queued.repay.market_to_repay,
     seize_market |-> IF queued.repay.market_to_seize = NoAddress
                      THEN ZeroAddress ELSE queued.repay.market_to_seize,
     borrower |-> ZeroAddress,
     max_repay |-> r.max_repay,
     pool_pair |-> r.pool_pair,
     fee |-> r.fee]

\* liquidator.liquidate(address, market_to_seize, account, max_repay, pool_pair, fee)
LiquidateCall(queued, r) ==
    [repay_market |-> queued.repay.market_to_repay,
     seize_market |-> IF queued.repay.market_to_seize = NoAddress
                      THEN ZeroAddress ELSE queued.repay.market_to_seize,
     borrower |-> queued.account.address,
     max_repay |-> r.max_repay,
     pool_pair |-> r.pool_pair,
     fee |-> r.fee]

\* The multicalls return: the candidate is re-evaluated, and the transaction
\* is built and sent when the evaluation allows it.
EvalDone ==
    /\ phase = "Evaluating"
    /\ \E f \in FreshResponses :
         LET prices == ZipPrices(markets, f.prices)
             liquidity == AccountLiquidity(f)
         IN  IF AsyncPanics(f, markets, price_feeds) THEN Panic(AsyncPanicCause(f))
             ELSE IF f.kind = "call_err" THEN ToIdle
             ELSE IF ~StillUnderWater(liquidity[1], liquidity[2]) THEN ToIdle
             ELSE IF PickPanics(f.market_account, prices, assets)
                  THEN Panic(EvalPanicCause(f, prices))
             ELSE LET repay == pick_markets(f.market_account, prices, f.timestamp, assets)
                  IN  IF EvalPanics(f, prices, assets, repay)
                      THEN Panic(EvalPanicCause(f, prices))
                      ELSE \E flash_pair \in get_flash_pair(repay, token_pairs, tokens) :
                             LET r == is_profitable(repay, f.liquidation_incentive,
                                                    gas_price, prices[market_weth_address],
                                                    flash_pair)
                             IN  IF ~Submits(r.profitable, liquidate_unprofitable)
                                 THEN ToIdle
                                 ELSE /\ phase' = "Firing"
                                      /\ tx' = LiquidateCall(liquidations[cur], r)
                                      /\ fresh' =
                                           [adjusted_collateral |-> liquidity[1],
                                            adjusted_debt |-> liquidity[2],
                                            profitable |-> r.profitable,
                                            market_to_repay |-> repay.market_to_repay,
                                            market_to_seize |-> repay.market_to_seize,
                                            market_to_liquidate_debt |->
                                                repay.market_to_liquidate_debt,
                                            error |-> "none"]
                                      /\ UNCHANGED cur
    /\ UNCHANGED <<call, config, params, table, channel, last, ticks>>

\* func.send().await: the transaction is accepted, or the send fails and
\* liquidate returns the error, which run drops.
SendDone ==
    /\ phase = "Firing"
    /\ \E ok \in BOOLEAN :
         IF ok THEN phase' = "Confirming" /\ UNCHANGED flight ELSE ToIdle
    /\ UNCHANGED <<call, config, params, table, channel, last, ticks>>

\* The confirmation as it would be if the liquidated candidate were taken out
\* of the table.
ConfirmDoneRemoves ==
    /\ phase = "Confirming"
    /\ ToIdle
    /\ liquidations' = [a \in DOMAIN liquidations \ {cur} |-> liquidations[a]]
    /\ UNCHANGED <<call, config, params, liquidations_iter, channel, last, ticks>>

\* tx.confirmations(1).await: the receipt arrives, or waiting for it fails.
ConfirmDone ==
    /\ phase = "Confirming"
    /\ ToIdle
    /\ UNCHANGED <<call, config, params, table, channel, last, ticks>>

Next ==
    \/ Send
    \/ Close
    \/ RecvBatch
    \/ RecvClosed
    \/ Timeout
    \/ EvalDone
    \/ SendDone
    \/ ConfirmDone

Spec == Init /\ [][Next]_vars

\* ------------------------------------------------------------ the claims
\* The turn of the loop that receives a batch is the only one that takes a
\* batch out of the channel.
Received == pending' < pending

TableHas(a) == a \in DOMAIN liquidations

\* C1: a candidate visited by the idle iterator is handed to liquidate only
\* if the backup window is 0 or its stored age is strictly greater than the
\* window; a visited candidate with B > 0 and age <= B is skipped.
C1_FiredOnlyIfOldEnough ==
    last.kind \in {"fired", "skipped"} =>
        /\ TableHas(last.account)
        /\ last.kind = "fired" <=>
              (backup = 0 \/ liquidations[last.account].age > backup)

C1_Witness ==
    /\ backup > 0
    /\ last.kind = "fired"
    /\ liquidations[last.account].age > backup

C3_UpdateReplacesTable ==
    [][(Received /\ last'.batch.action = "Update") =>
          LET new == last'.batch.liquidations
          IN  /\ DOMAIN liquidations' = DOMAIN new
              /\ \A a \in DOMAIN new :
                    /\ liquidations'[a].account = new[a].account
                    /\ liquidations'[a].repay = new[a].repay
                    /\ (backup > 0 /\ TableHas(a)) =>
                          liquidations'[a].age = liquidations[a].age + 1]_vars

C3_Witness ==
    /\ backup > 0
    /\ last.kind = "batch"
    /\ last.batch.action = "Update"
    /\ DOMAIN last.batch.liquidations = {21}
    /\ liquidations[21].age = 2

\* C4: with backup window 0 every candidate of the table has age 0, in every
\* reachable state.
C4_NoWindowNoAge ==
    backup = 0 => \A a \in DOMAIN liquidations : liquidations[a].age = 0

C4_Witness ==
    /\ backup = 0
    /\ last.kind = "batch"
    /\ last.batch.action = "Insert"
    /\ DOMAIN last.batch.liquidations = {21}
    /\ DOMAIN liquidations = {21, 22}

\* C5 as stated: after an Insert batch every account of the batch is in the
\* table with the batch's snapshot and plan (an existing entry is
\* overwritten), and with B > 0 an account that was in the table before has
\* its previous age plus 1.
C5_InsertUpserts ==
    [][(Received /\ last'.batch.action = "Insert") =>
          LET new == last'.batch.liquidations
          IN  \A a \in DOMAIN new :
                 /\ a \in DOMAIN liquidations'
                 /\ liquidations'[a].account = new[a].account
                 /\ liquidations'[a].repay = new[a].repay
                 /\ (backup > 0 /\ TableHas(a)) =>
                       liquidations'[a].age = liquidations[a].age + 1]_vars

C7_AgeCountsConsecutiveBatches ==
    (backup > 0 /\ ticks.only_updates) =>
        \A a \in Accounts :
            IF TableHas(a)
            THEN liquidations[a].age = ticks.count[a] /\ ticks.count[a] >= 1
            ELSE ticks.count[a] = 0

C7_Witness ==
    /\ backup > 0
    /\ ticks.only_updates
    /\ TableHas(21) /\ TableHas(22)
    /\ liquidations[21].age = 3
    /\ liquidations[22].age = 1

InFlight == phase \in {"Firing", "Confirming"}

\* C8 as stated: a transaction is submitted only if the freshly fetched
\* liquidity has adjusted_debt > 0 and a health factor strictly below WAD,
\* and the fresh evaluation is profitable or liquidate_unprofitable is set.
C8_SubmittedOnlyUnderWater ==
    InFlight =>
        /\ fresh.adjusted_debt > 0
        /\ div_wad_down(fresh.adjusted_collateral, fresh.adjusted_debt) < WAD
        /\ fresh.profitable \/ liquidate_unprofitable

\* C9 as stated: no transaction is submitted with the no-route result of the
\* flash-pair selection (zero address, fee u32::MAX).
C9_NoRouteAborts ==
    InFlight => ~(tx.pool_pair = ZeroAddress /\ tx.fee = U32_MAX)

\* C10 as stated: once recv has yielded None (the channel is closed and
\* empty) the loop of run has stopped and run has returned.
C10_ClosedChannelEndsRun ==
    last.kind = "closed" => phase = "Returned"

\* C11 as stated: a missing price (of a market of the fired candidate or of
\* the WETH market, the batch's market list being short or empty) never ends
\* the dispatcher task: the candidate is skipped and the loop goes on.
C11_MissingPriceSkips ==
    ~(phase = "Panicked" /\ fresh.error = "price")

\* A step that ends the firing of a candidate: liquidate returns without a
\* receipt awaited to the end, or the making of the multicall fails.
Evaluated == phase \in {"Evaluating", "Firing", "Confirming"}

FiringEnds ==
    /\ Evaluated
    /\ \/ phase' = "Idle"
       \/ phase' = "Panicked" /\ fresh'.error = "multicall"

\* C12 as stated: whatever step of firing a candidate fails (the multicall,
\* the send, the receipt), the dispatcher is idle again, the candidate is
\* still in the table with the same age, and the iterator has moved past it.
C12_FailureReturnsToIdle ==
    [][FiringEnds =>
          /\ phase' = "Idle"
          /\ liquidations' = liquidations
          /\ liquidations_iter' = liquidations_iter
          /\ liquidations_iter # <<>> => cur \notin liquidations_iter[1]]_vars

\* C13: the dispatcher goes Idle, Evaluating, Firing, Confirming, Idle for
\* one candidate at a time: a transaction exists only in Firing and
\* Confirming, it names the candidate that was evaluated, and while a
\* candidate is being handled no batch leaves the channel, the iterator does
\* not move and no other candidate is visited.
C13_OneCandidateAtATime ==
    [][/\ phase = "Idle" => phase' \in {"Idle", "Evaluating"}
       /\ phase = "Evaluating" => phase' \in {"Evaluating", "Firing", "Idle", "Panicked"}
       /\ phase = "Firing" => phase' \in {"Firing", "Confirming", "Idle"}
       /\ phase = "Confirming" => phase' \in {"Confirming", "Idle"}
       /\ Evaluated =>
             /\ ~Received
             /\ UNCHANGED <<table, last>>
             /\ Evaluated' => cur' = cur
       /\ phase' = "Idle" => cur' = NoAddress /\ tx' = NoTx
       /\ phase' = "Evaluating" =>
             /\ tx' = NoTx
             /\ last'.kind = "fired" /\ last'.account = cur'
       /\ InFlight' =>
             /\ Evaluated
             /\ TableHas(cur)
             /\ tx'.borrower = cur
             /\ tx'.repay_market = liquidations[cur].repay.market_to_repay
             /\ fresh'.market_to_repay # NoAddress]_vars

C13_Witness ==
    /\ phase = "Confirming"
    /\ pending > 0
    /\ liquidations_iter # <<>>
    /\ liquidations_iter[1] # {}
    /\ tx.borrower = cur

\* C14: the candidate table and the batch parameters change only in the
\* step that receives a batch; every other step (the idle iterator visiting,
\* firing, skipping or running out, and all of liquidate) leaves them as
\* they were.
C14_OnlyBatchesChangeTable ==
    [][~Received => UNCHANGED <<liquidations, params>>]_vars

C14_Witness ==
    /\ phase = "Idle"
    /\ last.kind = "fired"
    /\ liquidations_iter = <<{}>>
    /\ DOMAIN liquidations = {21, 22}
    /\ gas_price = 1

\* ------------------------------------------- the catalog and the flash pair
\* Liquidation::new parses a catalog, and get_flash_pair is called on the
\* parsed catalog for every collateral and repay asset.  run is not started.
RunNotStarted ==
    /\ backup = 0
    /\ liquidate_unprofitable = FALSE
    /\ liquidations = [a \in {} |-> 0]
    /\ liquidations_iter = <<>>
    /\ eth_price = 0
    /\ gas_price = 0
    /\ liquidation_incentive = <<>>
    /\ markets = <<>>
    /\ price_feeds = [m \in {} |-> 0]
    /\ assets = [m \in {} |-> 0]
    /\ pending = 0
    /\ closed = FALSE
    /\ phase = "Idle"
    /\ cur = NoAddress
    /\ fresh = NoFresh
    /\ tx = NoTx
    /\ last = Did("start", NoAddress)
    /\ ticks = [only_updates |-> TRUE, count |-> NoTicks]

\* The fee tiers of the catalog entries (u32), and the entries
\* [token0, token1, fee]: pools of tokens 1 and 2, listed in either token
\* order, and of tokens 3 and 1.
CatalogFees == {500, 3000, 10000}

CatalogEntries == {<<1, 2>>, <<2, 1>>, <<3, 1>>} \X CatalogFees

JsonPairs ==
    UNION {[1..n -> {<<e[1][1], e[1][2], e[2]>> : e \in CatalogEntries}] :
              n \in 0..MaxCatalog}

CatalogCall(op, json_pairs, collateral, repay_asset, flash_pair) ==
    [op |-> op, catalog |-> json_pairs,
     collateral |-> collateral, repay_asset |-> repay_asset,
     pool_pair |-> flash_pair[1], fee |-> flash_pair[2]]

CatalogInit ==
    /\ RunNotStarted
    /\ token_pairs = NoPairs
    /\ tokens = {}
    /\ \E json_pairs \in JsonPairs :
          call = CatalogCall("catalog", json_pairs, ZeroAddress, ZeroAddress,
                             <<ZeroAddress, 0>>)

\* Liquidation::new: the catalog is parsed.
New ==
    /\ call.op = "catalog"
    /\ token_pairs' = parse_token_pairs(call.catalog).pairs
    /\ tokens' = parse_token_pairs(call.catalog).tokens
    /\ call' = [call EXCEPT !.op = "new"]
    /\ UNCHANGED <<backup, liquidate_unprofitable, params, table, channel,
                   phase, flight, last, ticks>>

\* get_flash_pair on a plan with the given collateral and repay assets.
FlashPair ==
    /\ call.op = "new"
    /\ \E collateral \in Tokens, repay_asset \in Tokens :
         \E flash_pair \in
               get_flash_pair([DefaultRepay EXCEPT
                                  !.collateral_asset_address = collateral,
                                  !.repay_asset_address = repay_asset],
                              token_pairs, tokens) :
            call' = CatalogCall("get_flash_pair", call.catalog, collateral,
                                repay_asset, flash_pair)
    /\ UNCHANGED <<config, params, table, channel, phase, flight, last, ticks>>

CatalogNext == New \/ FlashPair

CatalogSpec == CatalogInit /\ [][CatalogNext]_vars

\* What the catalog lists for the unordered pair {a, b}: the indexes of its
\* entries, their fees, the least of them.
ListedAt(json_pairs, a, b) ==
    {i \in 1..Len(json_pairs) : {json_pairs[i][1], json_pairs[i][2]} = {a, b}}

ListedFees(json_pairs, a, b) ==
    {json_pairs[i][3] : i \in ListedAt(json_pairs, a, b)}

LeastOf(fees) == CHOOSE f \in fees : \A g \in fees : f <= g

ListedTokens(json_pairs) ==
    UNION {{json_pairs[i][1], json_pairs[i][2]} : i \in 1..Len(json_pairs)}

\* C15: with collateral asset different from repay asset and at least one
\* entry of the catalog for the pair, get_flash_pair returns the collateral
\* asset and the least fee listed for the pair, whatever the order of the
\* entries and of the tokens in them.
C15_LowestFeeOfThePair ==
    (/\ call.op = "get_flash_pair"
     /\ call.collateral # call.repay_asset
     /\ ListedFees(call.catalog, call.collateral, call.repay_asset) # {}) =>
        /\ call.pool_pair = call.collateral
        /\ call.fee = LeastOf(ListedFees(call.catalog, call.collateral,
                                         call.repay_asset))

C15_Witness ==
    /\ call.op = "get_flash_pair"
    /\ call.collateral = 1
    /\ call.repay_asset = 2
    /\ call.catalog = << <<1, 2, 3000>>, <<2, 1, 500>>, <<1, 2, 10000>> >>
    /\ call.fee = 500

\* The results of the scan of the known tokens other than the collateral:
\* a token whose pool with the collateral has the least top fee, with that
\* fee, or the zero address and u32::MAX when there is no such pool.
ScanResults(json_pairs, collateral) ==
    LET routes == {t \in ListedTokens(json_pairs) \ {collateral} :
                      ListedFees(json_pairs, t, collateral) # {}}
        top(t) == LeastOf(ListedFees(json_pairs, t, collateral))
    IN  IF routes = {}
        THEN {<<ZeroAddress, U32_MAX>>}
        ELSE {<<t, top(t)>> : t \in {u \in routes :
                                        \A v \in routes : top(u) <= top(v)}}

\* C16 as stated: unless the collateral asset differs from the repay asset
\* and the catalog lists a pool for the pair, get_flash_pair returns the
\* result of the scan of the known tokens other than the collateral.
C16_OtherwiseScans ==
    (/\ call.op = "get_flash_pair"
     /\ ~(/\ call.collateral # call.repay_asset
          /\ ListedFees(call.catalog, call.collateral, call.repay_asset) # {})) =>
        <<call.pool_pair, call.fee>> \in ScanResults(call.catalog, call.collateral)

\* The number of times a fee is in a heap, and in the entries the catalog
\* lists for a pair.
TimesIn(heap, fee) == Cardinality({i \in 1..Len(heap) : heap[i] = fee})

TimesListed(json_pairs, a, b, fee) ==
    Cardinality({i \in ListedAt(json_pairs, a, b) : json_pairs[i][3] = fee})

\* C17: for a parsed catalog and any two tokens a and b, the keys
\* ordered_addresses(a, b) and ordered_addresses(b, a) are the same, the
\* key has a heap exactly when the catalog lists the unordered pair, the
\* heap holds every fee listed for the pair as many times as it is listed,
\* and its top is the least of them.
C17_OneHeapPerUnorderedPair ==
    call.op = "new" =>
        \A a \in Tokens, b \in Tokens :
            LET key == ordered_addresses(a, b)
            IN  /\ key = ordered_addresses(b, a)
                /\ key \in DOMAIN token_pairs
                      <=> ListedFees(call.catalog, a, b) # {}
                /\ key \in DOMAIN token_pairs =>
                      /\ \A fee \in CatalogFees :
                            TimesIn(token_pairs[key], fee)
                              = TimesListed(call.catalog, a, b, fee)
                      /\ Peek(token_pairs[key])
                            = LeastOf(ListedFees(call.catalog, a, b))

C17_Witness ==
    /\ call.op = "new"
    /\ call.catalog = << <<2, 1, 3000>>, <<1, 2, 500>>, <<2, 1, 3000>> >>
    /\ token_pairs[<<1, 2>>] = <<3000, 500, 3000>>

\* ------------------------------------------------- the planner by itself
\* pick_markets makes the plan of an account with its collateral in market
\* 11 and its debt in market 12, for several prices and decimals of market
\* 12; max_repay_assets is called on the plan, and liquidate computes the
\* amount it passes to liquidator.liquidate.  run is not started.
RepayDeposits == {10, 100}

RepayBorrows == {90, 100, 1800, 2000}

RepayDecimals == {1, 2}

RepayPrices == {5, 50, WAD}

RepayIncentives == {Incentive, [liquidator |-> 10, lenders |-> 0]}

\* The liquidator's own ceiling: a small one, and none.
RepayCeilings == {50, U256_MAX}

RepayAccounts ==
    {<<Position(11, TRUE, dep, 0, <<>>),
       [Position(12, FALSE, 0, bor, <<>>) EXCEPT !.decimals = dec]>> :
        dep \in RepayDeposits, bor \in RepayBorrows, dec \in RepayDecimals}

RepayInit ==
    /\ RunNotStarted
    /\ token_pairs = NoPairs
    /\ tokens = {}
    /\ \E market_account \in RepayAccounts, price \in RepayPrices,
          incentive \in RepayIncentives, ceiling \in RepayCeilings :
          call = [op |-> "account", market_account |-> market_account,
                  prices |-> (11 :> WAD) @@ (12 :> price),
                  liquidation_incentive |-> incentive,
                  max_liquidator_assets |-> ceiling,
                  repay |-> DefaultRepay, amount |-> 0]

PickMarkets ==
    /\ call.op = "account"
    /\ call' = [call EXCEPT
                  !.op = "pick_markets",
                  !.repay = pick_markets(call.market_account, call.prices, Now,
                                         MarketAssets)]
    /\ UNCHANGED <<config, params, table, channel, phase, flight, last, ticks>>

\* The arithmetic of the planner panics on the plan.
PlanPanics ==
    /\ call.op = "pick_markets"
    /\ IsProfitablePanics(call.repay, call.liquidation_incentive)
    /\ call' = [call EXCEPT !.op = "panic"]
    /\ UNCHANGED <<config, params, table, channel, phase, flight, last, ticks>>

MaxRepayAssets ==
    /\ call.op = "pick_markets"
    /\ ~IsProfitablePanics(call.repay, call.liquidation_incentive)
    /\ call' = [call EXCEPT
                  !.op = "max_repay_assets",
                  !.amount = max_repay_assets(call.repay, call.liquidation_incentive,
                                              call.max_liquidator_assets)]
    /\ UNCHANGED <<config, params, table, channel, phase, flight, last, ticks>>

\* liquidate on an account still under water: the amount of the call it
\* builds from the answer of is_profitable.
Liquidate ==
    /\ call.op = "pick_markets"
    /\ StillUnderWater(call.repay.total_adjusted_collateral,
                       call.repay.total_adjusted_debt)
    /\ ~IsProfitablePanics(call.repay, call.liquidation_incentive)
    /\ \E flash_pair \in get_flash_pair(call.repay, token_pairs, tokens) :
          call' = [call EXCEPT
                     !.op = "liquidate",
                     !.amount =
                        LiquidateCall(
                            [account |-> AccountSnapshot(21, 1), repay |-> call.repay],
                            is_profitable(call.repay, call.liquidation_incentive, 0,
                                          call.prices[market_weth_address],
                                          flash_pair)).max_repay]
    /\ UNCHANGED <<config, params, table, channel, phase, flight, last, ticks>>

RepayNext == PickMarkets \/ PlanPanics \/ MaxRepayAssets \/ Liquidate

RepaySpec == RepayInit /\ [][RepayNext]_vars

\* An amount of value in units of the plan's repay asset, as
\* max_repay_assets converts it.
InRepayAssets(repay, value) == mul_div_up(value, exp10(repay.decimals), repay.price)

\* C18: whenever max_repay_assets returns, its result is at most the plan's
\* market_to_liquidate_debt and at most the plan's total_value_debt converted
\* into repay-asset units with the plan's price and decimals.
C18_MaxRepayWithinDebt ==
    call.op = "max_repay_assets" =>
        /\ call.amount <= call.repay.market_to_liquidate_debt
        /\ call.amount <= InRepayAssets(call.repay, call.repay.total_value_debt)

C18_Witness ==
    /\ call.op = "max_repay_assets"
    /\ call.max_liquidator_assets = U256_MAX
    /\ call.amount = call.repay.market_to_liquidate_debt
    /\ call.amount < InRepayAssets(call.repay, call.repay.total_value_debt)

\* C19 as stated: the max_repay that liquidate passes to
\* liquidator.liquidate never exceeds the market_to_liquidate_debt of the
\* plan it was computed from.
C19_PassedRepayWithinDebt ==
    call.op = "liquidate" =>
        call.amount <= call.repay.market_to_liquidate_debt

SeizeCapBinds ==
    /\ call.op = "max_repay_assets"
    /\ call.max_liquidator_assets = U256_MAX
    /\ SeizeCap(call.repay, call.liquidation_incentive)
         < CloseFactorCap(call.repay, call.liquidation_incentive)

\* C20 as stated: when the seize cap is smaller than the close-factor cap
\* and the liquidator's ceiling is unbounded, max_repay_assets is the seize
\* cap converted into repay-asset units, for every price and decimals.
C20_SeizeCapConverted ==
    SeizeCapBinds =>
        call.amount
          = InRepayAssets(call.repay, SeizeCap(call.repay, call.liquidation_incentive))

\* C20 as the program has it: when the seize cap is smaller than the
\* close-factor cap and the liquidator's ceiling is unbounded,
\* max_repay_assets is the lesser of the seize cap converted into
\* repay-asset units and the plan's market_to_liquidate_debt.
C20_SeizeCapConvertedAndClamped ==
    SeizeCapBinds =>
        call.amount
          = Min(InRepayAssets(call.repay,
                              SeizeCap(call.repay, call.liquidation_incentive)),
                call.repay.market_to_liquidate_debt)

\* Seize value 80 with incentives 0.05 and 0.01: 80 / 1.06, converted.
C20_Witness ==
    /\ SeizeCapBinds
    /\ call.liquidation_incentive = Incentive
    /\ call.repay.market_to_seize_value = 80
    /\ call.amount = InRepayAssets(call.repay, div_wad_up(80, 106))
    /\ call.amount < call.repay.market_to_liquidate_debt

\* ------------------------------------------------ is_profitable by itself
\* is_profitable is called on the plans pick_markets makes, for several
\* prices of the repay asset, pool fees and gas prices.  run is not started.
ProfitPrices == {7, 50, WAD}

\* Catalogs with no pool, and with one pool of tokens 1 and 2 at fee 1, 5.
ProfitCatalogs == {<<>>, << <<1, 2, 1>> >>, << <<2, 1, 5>> >>}

ProfitAccounts ==
    {<<Position(11, TRUE, dep, 0, <<>>),
       [Position(12, FALSE, 0, bor, <<>>) EXCEPT !.decimals = dec]>> :
        dep \in {13, 100}, bor \in {90, 1800, 18200}, dec \in RepayDecimals}

ProfitGasPrices == {0, 1}

ProfitInit ==
    /\ RunNotStarted
    /\ \E json_pairs \in ProfitCatalogs :
          /\ token_pairs = parse_token_pairs(json_pairs).pairs
          /\ tokens = parse_token_pairs(json_pairs).tokens
    /\ \E market_account \in ProfitAccounts, price \in ProfitPrices,
          last_gas_price \in ProfitGasPrices :
          call = [op |-> "account", market_account |-> market_account,
                  prices |-> (11 :> WAD) @@ (12 :> price),
                  liquidation_incentive |-> Incentive,
                  max_liquidator_assets |-> U256_MAX,
                  repay |-> DefaultRepay, amount |-> 0,
                  last_gas_price |-> last_gas_price,
                  profitable |-> FALSE, fee |-> 0]

IsProfitable ==
    /\ call.op = "pick_markets"
    /\ ~IsProfitablePanics(call.repay, call.liquidation_incentive)
    /\ \E flash_pair \in get_flash_pair(call.repay, token_pairs, tokens) :
         LET r == is_profitable(call.repay, call.liquidation_incentive,
                                call.last_gas_price,
                                call.prices[market_weth_address], flash_pair)
         IN  call' = [call EXCEPT !.op = "is_profitable",
                                  !.amount = r.max_repay,
                                  !.profitable = r.profitable,
                                  !.fee = r.fee]
    /\ UNCHANGED <<config, params, table, channel, phase, flight, last, ticks>>

ProfitNext == PickMarkets \/ PlanPanics \/ IsProfitable

ProfitSpec == ProfitInit /\ [][ProfitNext]_vars

\* The profit and the cost of the spec for one value V of the amount to
\* repay, and the verdict they give.
ProfitOf(V, incentive) == mul_wad_down(V, incentive.liquidator + incentive.lenders)

CostOf(V, incentive, pool_fee, gas, eth) ==
    mul_wad_down(V, incentive.lenders)
      + mul_wad_down(V, pool_fee * FEE_TO_WAD)
      + mul_wad_down(gas * GAS_UNITS, eth)

VerdictOn(V, incentive, pool_fee, gas, eth) ==
    /\ ProfitOf(V, incentive) > CostOf(V, incentive, pool_fee, gas, eth)
    /\ ProfitOf(V, incentive) - CostOf(V, incentive, pool_fee, gas, eth)
         > PROFIT_DUST

\* C21 as stated: the verdict of is_profitable is profit > cost and
\* profit - cost > the dust threshold, the profit and the cost being taken
\* on one and the same value V = max_repay * price / 10^decimals (whichever
\* way that one division is rounded).
C21_OneValueInProfitAndCost ==
    call.op = "is_profitable" =>
        \E V \in {mul_div_down(call.amount, call.repay.price,
                                exp10(call.repay.decimals)),
                   mul_div_up(call.amount, call.repay.price,
                              exp10(call.repay.decimals))} :
            call.profitable
              <=> VerdictOn(V, call.liquidation_incentive, call.fee,
                            call.last_gas_price, call.prices[market_weth_address])

\* -------------------------------------------------- pick_markets by itself
\* pick_markets is called on lists of positions in markets 11 (one decimal,
\* price 1 WAD, adjust factor 0.8) and 12 (two decimals, price 0.5 WAD,
\* adjust factor 0.9): collateral and debt that tie across the two markets,
\* fixed borrows past due, due now and not yet due, a deposit that is not
\* collateral.  run is not started.
Position12(c, dep, bor, fixed) ==
    [Position(12, c, dep, bor, fixed) EXCEPT !.decimals = 2]

Fixed(maturity, principal, fee) ==
    [maturity |-> maturity, principal |-> principal, fee |-> fee]

PickPositions ==
    {Position(11, TRUE, 90, 0, <<>>),
     Position12(TRUE, 1600, 0, <<>>),
     Position(11, FALSE, 0, 80, <<>>),
     Position12(FALSE, 0, 1800, <<>>),
     Position12(FALSE, 0, 0, <<Fixed(0, 100, 5)>>),
     Position(11, TRUE, 100, 0, <<Fixed(Now, 70, 10), Fixed(Now + 10, 30, 0)>>),
     Position(11, FALSE, 50, 0, <<>>),
     Position12(TRUE, 200, 45, PastDue)}

PickPrices == (11 :> WAD) @@ (12 :> 50)

PickInit ==
    /\ RunNotStarted
    /\ token_pairs = NoPairs
    /\ tokens = {}
    /\ \E n \in 0..MaxPositions :
         \E market_account \in [1..n -> PickPositions] :
            call = [op |-> "account", market_account |-> market_account,
                    prices |-> PickPrices,
                    liquidation_incentive |-> Incentive,
                    max_liquidator_assets |-> U256_MAX,
                    repay |-> DefaultRepay, amount |-> 0]

PickNext == PickMarkets

PickSpec == PickInit /\ [][PickNext]_vars

Picked == call.op = "pick_markets"

\* C22: whenever pick_markets returns a plan with total_adjusted_debt > 0,
\* the plan names a market to repay.
C22_DebtHasRepayMarket ==
    (Picked /\ call.repay.total_adjusted_debt > 0) =>
        call.repay.market_to_repay # NoAddress

C22_Witness ==
    /\ Picked
    /\ Len(call.market_account) = 2
    /\ call.repay.total_adjusted_debt > 0
    /\ call.repay.market_to_repay = 11

\* What the spec says of one position: the penalty of a fixed borrow, the
\* debt of the position in assets, its adjusted collateral and its adjusted
\* debt in value.
PenaltyOf(fixed, penalty_rate, timestamp) ==
    IF fixed.maturity < timestamp
    THEN ((fixed.principal + fixed.fee)
            * ((timestamp - fixed.maturity) * penalty_rate)) \div WAD
    ELSE 0

RECURSIVE BorrowedWithPenalties(_, _, _)
BorrowedWithPenalties(positions, penalty_rate, timestamp) ==
    IF positions = <<>> THEN 0
    ELSE (Head(positions).principal + Head(positions).fee)
           + PenaltyOf(Head(positions), penalty_rate, timestamp)
           + BorrowedWithPenalties(Tail(positions), penalty_rate, timestamp)

DebtValueOf(market, prices, timestamp) ==
    mul_div_up(BorrowedWithPenalties(market.fixed_borrow_positions,
                                     market.penalty_rate, timestamp)
                 + market.floating_borrow_assets,
               prices[market.market], exp10(market.decimals))

AdjustedDebtOf(market, prices, timestamp) ==
    div_wad_up(DebtValueOf(market, prices, timestamp), market.adjust_factor)

AdjustedCollateralOf(market, prices) ==
    mul_wad_down(mul_div_down(market.floating_deposit_assets,
                              prices[market.market], exp10(market.decimals)),
                 market.adjust_factor)

\* The collateral positions of the list, and the last position of the list
\* among those of S where the measure is greatest.
CollateralAt(market_account) ==
    {i \in 1..Len(market_account) : market_account[i].is_collateral}

LastGreatest(S, measure) ==
    CHOOSE i \in S :
        /\ \A j \in S : measure[j] <= measure[i]
        /\ \A j \in S : j > i => measure[j] < measure[i]

\* C23: the market to seize is that of the collateral position with the
\* greatest adjusted collateral, the market to repay that of the position
\* with the greatest adjusted debt, the last one of the list when several
\* tie; the price, the decimals and the repay asset of the plan are those
\* of the market to repay.
C23_LastGreatestWins ==
    Picked =>
        LET ma == call.market_account
            all == 1..Len(ma)
            coll == [i \in all |-> AdjustedCollateralOf(ma[i], call.prices)]
            debt == [i \in all |-> AdjustedDebtOf(ma[i], call.prices, Now)]
        IN  /\ IF CollateralAt(ma) = {}
               THEN call.repay.market_to_seize = NoAddress
               ELSE LET s == LastGreatest(CollateralAt(ma), coll)
                    IN  /\ call.repay.market_to_seize = ma[s].market
                        /\ call.repay.market_to_seize_value = coll[s]
            /\ IF all = {}
               THEN call.repay.market_to_repay = NoAddress
               ELSE LET r == LastGreatest(all, debt)
                    IN  /\ call.repay.market_to_repay = ma[r].market
                        /\ call.repay.market_to_liquidate_debt = debt[r]
                        /\ call.repay.price = call.prices[ma[r].market]
                        /\ call.repay.decimals = ma[r].decimals
                        /\ call.repay.repay_asset_address
                              = MarketAssets[ma[r].market]

\* Collateral and debt tie across the two markets: the last scanned wins.
C23_Witness ==
    /\ Picked
    /\ call.market_account
         = <<Position12(FALSE, 0, 1800, <<>>), Position(11, FALSE, 0, 80, <<>>)>>
    /\ call.repay.market_to_repay = 11
    /\ call.repay.price = WAD
    /\ call.repay.decimals = 1

RECURSIVE TotalDebtValue(_, _, _)
TotalDebtValue(market_account, prices, timestamp) ==
    IF market_account = <<>> THEN 0
    ELSE DebtValueOf(Head(market_account), prices, timestamp)
           + TotalDebtValue(Tail(market_account), prices, timestamp)

\* C24: the debt of a market counts, for each fixed borrow, principal + fee
\* and, only when the maturity is before the timestamp, the penalty
\* borrowed * (timestamp - maturity) * penalty_rate / WAD rounded down.
C24_PenaltyOnlyPastDue ==
    Picked =>
        call.repay.total_value_debt
          = TotalDebtValue(call.market_account, call.prices, Now)

\* Principal 100, fee 5, 10 s past due at 0.01 WAD per second: the penalty
\* is 10 (10.5 rounded down), the debt 115, its value 58; and a borrow due
\* at the timestamp itself has no penalty.
C24_Witness ==
    /\ Picked
    /\ call.market_account
         = <<Position12(FALSE, 0, 0, <<Fixed(0, 100, 5)>>),
             Position(11, TRUE, 100, 0,
                      <<Fixed(Now, 70, 10), Fixed(Now + 10, 30, 0)>>)>>
    /\ call.repay.total_value_debt = 58 + 1100

\* ------------------------------------------------------ Market accrual math
\* Times are in units in which four weeks are 10 and a year is 20.
INTERVAL == 10

YEAR == 20

\* 7.5e14 of 1e18: below the unit of the model's scale, where the least
\* positive value stands for it.
precision_threshold == 1

Max(a, b) == IF a > b THEN a ELSE b

\* The natural logarithm of a WAD value of at least WAD, as a WAD value:
\* ln 2 for each halving, then the series 2 (z + z^3/3 + z^5/5) with
\* z = (x - 1) / (x + 1) at three decimals.
RECURSIVE ln_wad(_)
ln_wad(x) ==
    IF x >= 2 * WAD THEN 69 + ln_wad(x \div 2)
    ELSE LET z == ((x - WAD) * 1000) \div (x + WAD)
             z3 == (z * z * z) \div 1000000
             z5 == (z3 * z * z) \div 1000000
         IN  (2 * (z + z3 \div 3 + z5 \div 5)) \div 10

\* r.into_raw(): the two's complement of a negative rate.
IntoRaw(r) == IF r < 0 THEN r + U256_MAX + 1 ELSE r

\* The rate as it would be with each Simpson term divided by 6 on its own.
floating_borrow_rateTermwise(market, utilization_before, utilization_after) ==
    LET alpha == market.floating_max_utilization - utilization_before
    IN  IntoRaw(div_wad_down(market.floating_a, alpha) \div 6
                  + mul_div_down(market.floating_a, WAD * 4,
                                 market.floating_max_utilization
                                   - ((utilization_after + utilization_before) \div 2))
                      \div 6
                  + div_wad_down(market.floating_a,
                                 market.floating_max_utilization - utilization_after)
                      \div 6
                  + market.floating_b)

floating_borrow_rate(market, utilization_before, utilization_after) ==
    LET alpha == market.floating_max_utilization - utilization_before
        delta == utilization_after - utilization_before
        r == IF div_wad_down(delta, alpha) < precision_threshold
             THEN (div_wad_down(market.floating_a, alpha)
                     + mul_div_down(market.floating_a, WAD * 4,
                                    market.floating_max_utilization
                                      - ((utilization_after + utilization_before)
                                           \div 2))
                     + div_wad_down(market.floating_a,
                                    market.floating_max_utilization
                                      - utilization_after))
                    \div 6
             ELSE mul_div_down(market.floating_a,
                               ln_wad(div_wad_down(alpha,
                                                   market.floating_max_utilization
                                                     - utilization_after)),
                               delta)
    IN  IntoRaw(r + market.floating_b)

total_floating_borrow_assets(market, timestamp) ==
    LET new_floating_utilization ==
            IF market.floating_assets > 0
            THEN div_wad_up(market.floating_debt, market.floating_assets)
            ELSE 0
        new_debt ==
            mul_wad_down(
                market.floating_debt,
                mul_div_down(
                    floating_borrow_rate(
                        market,
                        Min(market.floating_utilization, new_floating_utilization),
                        Max(market.floating_utilization, new_floating_utilization)),
                    timestamp - market.last_floating_debt_update,
                    YEAR))
    IN  market.floating_debt + new_debt

\* timestamp - self.last_accumulator_accrual is a subtraction of U256, which
\* panics below zero.
AccumulatedEarningsPanics(market, timestamp) ==
    timestamp < market.last_accumulator_accrual

accumulated_earnings(market, timestamp) ==
    LET elapsed == timestamp - market.last_accumulator_accrual
    IN  IF elapsed > 0
        THEN mul_div_down(market.earnings_accumulator, elapsed,
                          elapsed
                            + mul_wad_down(market.earnings_accumulator_smooth_factor,
                                           INTERVAL * market.max_future_pools))
        ELSE 0

\* The fixed pools of the loop of total_assets from index i on.
RECURSIVE SmartPoolEarnings(_, _, _, _)
SmartPoolEarnings(market, timestamp, i, until) ==
    IF i > until THEN 0
    ELSE LET maturity == INTERVAL * i
             fixed_pool == market.fixed_pools[maturity]
             earnings ==
                 IF maturity \in DOMAIN market.fixed_pools
                      /\ maturity > fixed_pool.last_accrual
                 THEN IF timestamp < maturity
                      THEN mul_div_down(fixed_pool.unassigned_earnings,
                                        timestamp - fixed_pool.last_accrual,
                                        maturity - fixed_pool.last_accrual)
                      ELSE fixed_pool.unassigned_earnings
                 ELSE 0
         IN  earnings + SmartPoolEarnings(market, timestamp, i + 1, until)

\* The subtractions of total_assets that panic below zero.
TotalAssetsPanics(market, timestamp) ==
    LET latest == (timestamp - (timestamp % INTERVAL)) \div INTERVAL
    IN  \/ AccumulatedEarningsPanics(market, timestamp)
        \/ timestamp < market.last_floating_debt_update
        \/ \E i \in latest..(latest + market.max_future_pools) :
              /\ INTERVAL * i \in DOMAIN market.fixed_pools
              /\ INTERVAL * i > market.fixed_pools[INTERVAL * i].last_accrual
              /\ timestamp < INTERVAL * i
              /\ timestamp < market.fixed_pools[INTERVAL * i].last_accrual

total_assets(market, timestamp) ==
    LET latest == (timestamp - (timestamp % INTERVAL)) \div INTERVAL
        smart_pool_earnings ==
            SmartPoolEarnings(market, timestamp, latest,
                              latest + market.max_future_pools)
    IN  market.floating_assets
          + smart_pool_earnings
          + accumulated_earnings(market, timestamp)
          + mul_wad_down(total_floating_borrow_assets(market, timestamp)
                           - market.floating_debt,
                         WAD - market.treasury_fee_rate)

\* The market functions by themselves: they are called, at any timestamp,
\* on a market whose state no event changes.  run is not started.
FixedPool(last_accrual, unassigned_earnings) ==
    [last_accrual |-> last_accrual, unassigned_earnings |-> unassigned_earnings]

NoPools == [maturity \in {} |-> FixedPool(0, 0)]

MarketPools ==
    {NoPools,
     10 :> FixedPool(5, 7),
     10 :> FixedPool(10, 7),
     (20 :> FixedPool(8, 9)) @@ (30 :> FixedPool(8, 4))}

MarketStates ==
    [floating_assets : {1000},
     floating_debt : {0, 500},
     floating_utilization : {30, 50},
     last_floating_debt_update : {8},
     max_future_pools : {1},
     fixed_pools : MarketPools,
     earnings_accumulator : {0, 50},
     last_accumulator_accrual : {8, 12},
     earnings_accumulator_smooth_factor : {50},
     floating_a : {2},
     floating_b : {0 - 1, 2},
     floating_max_utilization : {110},
     treasury_fee_rate : {10}]

Utilizations == {0, 30, 50, 109}

MarketCall(op, market, timestamp, utilization_before, utilization_after, result) ==
    [op |-> op, market |-> market, timestamp |-> timestamp,
     utilization_before |-> utilization_before,
     utilization_after |-> utilization_after, result |-> result]

MarketInit ==
    /\ RunNotStarted
    /\ token_pairs = NoPairs
    /\ tokens = {}
    /\ \E market \in MarketStates : call = MarketCall("market", market, 0, 0, 0, 0)

NoEvent == UNCHANGED <<config, params, table, channel, phase, flight, last, ticks>>

TotalAssets ==
    /\ \E timestamp \in 0..MaxTime :
         /\ ~TotalAssetsPanics(call.market, timestamp)
         /\ call' = MarketCall("total_assets", call.market, timestamp, 0, 0,
                               total_assets(call.market, timestamp))
    /\ NoEvent

AccumulatedEarnings ==
    /\ \E timestamp \in 0..MaxTime :
         /\ ~AccumulatedEarningsPanics(call.market, timestamp)
         /\ call' = MarketCall("accumulated_earnings", call.market, timestamp, 0, 0,
                               accumulated_earnings(call.market, timestamp))
    /\ NoEvent

FloatingBorrowRate ==
    /\ \E utilization_before \in Utilizations :
         \E utilization_after \in Utilizations :
            /\ utilization_before <= utilization_after
            /\ utilization_after < call.market.floating_max_utilization
            /\ call' = MarketCall("floating_borrow_rate", call.market, 0,
                                  utilization_before, utilization_after,
                                  floating_borrow_rate(call.market,
                                                       utilization_before,
                                                       utilization_after))
    /\ NoEvent

\* A call at a timestamp before the accrual it subtracts panics.
MarketPanics ==
    /\ \E timestamp \in 0..MaxTime :
         /\ \/ /\ TotalAssetsPanics(call.market, timestamp)
               /\ call' = MarketCall("total_assets panic", call.market,
                                     timestamp, 0, 0, 0)
            \/ /\ AccumulatedEarningsPanics(call.market, timestamp)
               /\ call' = MarketCall("accumulated_earnings panic", call.market,
                                     timestamp, 0, 0, 0)
    /\ NoEvent

MarketNext ==
    TotalAssets \/ AccumulatedEarnings \/ FloatingBorrowRate \/ MarketPanics

MarketSpec == MarketInit /\ [][MarketNext]_vars

\* C25: with no event in between, total_assets at a later timestamp is at
\* least total_assets at an earlier one, also across an INTERVAL boundary
\* where the window of fixed pools shifts.
C25_TotalAssetsMonotone ==
    [][(call.op = "total_assets" /\ call'.op = "total_assets"
          /\ call'.timestamp >= call.timestamp)
         => call'.result >= call.result]_vars

\* C26: floating_borrow_rate(u, u) is div_wad_down(floating_a,
\* floating_max_utilization - u) + floating_b exactly.
C26_DegenerateInterval ==
    (call.op = "floating_borrow_rate"
       /\ call.utilization_before = call.utilization_after) =>
        call.result
          = div_wad_down(call.market.floating_a,
                         call.market.floating_max_utilization
                           - call.utilization_before)
              + call.market.floating_b

\* floating_a / (1.1 - 0.5) = 3.33 of which 3 is kept, plus 2.
C26_Witness ==
    /\ call.op = "floating_borrow_rate"
    /\ call.utilization_before = 50
    /\ call.utilization_after = 50
    /\ call.market.floating_b = 2
    /\ call.result = 5

\* C27: accumulated_earnings(t) returns 0 for every t at or before
\* last_accumulator_accrual, and otherwise mul_div_down(earnings_accumulator,
\* D, D + smooth_factor * INTERVAL * max_future_pools / WAD) with
\* D = t - last_accumulator_accrual.
C27_AccumulatedEarnings ==
    /\ call.op # "accumulated_earnings panic"
    /\ call.op = "accumulated_earnings" =>
         LET D == call.timestamp - call.market.last_accumulator_accrual
         IN  call.result
               = IF D <= 0 THEN 0
                 ELSE mul_div_down(
                          call.market.earnings_accumulator, D,
                          D + (call.market.earnings_accumulator_smooth_factor
                                 * INTERVAL * call.market.max_future_pools)
                                \div WAD)

\* -------------------------------------------------------------- decode_log
\* Topics are numbered.  One topic stands for each family of filters of
\* decode_log: the protocol's and the price feeds' events (101), the Lido
\* events that update a price (102), the Lido events that are ignored (103);
\* 201..205 are the five topics of ignored_events, in its order; 301 and 302
\* are the signatures of no filter and are not in ignored_events.
DecodedTopics == {101}

UpdateLidoPriceTopics == {102}

IgnoreFilterTopics == {103}

ignored_events == {201, 202, 203, 204, 205}

UnknownTopics == {301, 302}

LogTopics ==
    DecodedTopics \cup UpdateLidoPriceTopics \cup IgnoreFilterTopics
      \cup ignored_events \cup UnknownTopics

\* A raw log: its topics, and whether its data and indexed topics are those
\* of the event its topic0 is the signature of.
RawLogs ==
    UNION {[topics : [1..n -> LogTopics], well_formed : BOOLEAN] : n \in 0..MaxTopics}

\* $ext_filter::decode_log(log) for the filters of a family.
FilterDecodes(log, family) ==
    /\ Len(log.topics) > 0
    /\ log.topics[1] \in family
    /\ log.well_formed

\* log.topics.get(0).copied()
Topic0(log) == IF Len(log.topics) > 0 THEN log.topics[1] ELSE 0

decode_log(log) ==
    IF FilterDecodes(log, DecodedTopics)
    THEN [kind |-> "Decoded", topic0 |-> Topic0(log)]
    ELSE IF FilterDecodes(log, UpdateLidoPriceTopics)
    THEN [kind |-> "UpdateLidoPrice", topic0 |-> Topic0(log)]
    ELSE IF FilterDecodes(log, IgnoreFilterTopics)
    THEN [kind |-> "Ignore", topic0 |-> Topic0(log)]
    ELSE IF \E i \in DOMAIN log.topics : log.topics[i] \in ignored_events
    THEN [kind |-> "Ignore", topic0 |-> Topic0(log)]
    ELSE [kind |-> "InvalidData", topic0 |-> 0]

\* decode_log by itself, on every raw log of RawLogs.  run is not started.
DecodeInit ==
    /\ RunNotStarted
    /\ token_pairs = NoPairs
    /\ tokens = {}
    /\ \E log \in RawLogs :
         call = [op |-> "log", log |-> log,
                 result |-> [kind |-> "none", topic0 |-> 0]]

DecodeLog ==
    /\ call.op = "log"
    /\ call' = [call EXCEPT !.op = "decode_log", !.result = decode_log(call.log)]
    /\ NoEvent

DecodeNext == DecodeLog

DecodeSpec == DecodeInit /\ [][DecodeNext]_vars

\* C28: decode_log returns a decoding error for every log whose topic0 is
\* the signature of no known event and is not one of the five topics of
\* ignored_events: a log is never ignored because another of its topics is
\* in ignored_events.
C28_UnknownTopic0IsError ==
    (call.op = "decode_log" /\ Topic0(call.log) \in UnknownTopics) =>
        call.result.kind = "InvalidData"

\* ------------------------------------------------------ The service update
\* update of the credit service, called again on every new block whether
\* the call before returned Ok or Err.  The service has two credit
\* managers, updated in this order.  The state of the service and of the
\* chain is in call: the head of the chain, last_block_synced, the head
\* fetched by the call in progress (to), the index of the manager the loop
\* is at (pending), the managers updated by the call in progress, how many
\* times each block was handed to each manager (counted up to 2), and what
\* the last call returned.  run is not started.
credit_managers == <<1, 2>>

CreditManagers == {credit_managers[i] : i \in DOMAIN credit_managers}

\* The blocks a manager applies when it is given last_block_synced and to.
BlockRange(from, to) == (from + 1)..to

Handed(applied, manager, from, to) ==
    [applied EXCEPT ![manager] =
        [b \in DOMAIN @ |-> IF b \in BlockRange(from, to) THEN Min(2, @[b] + 1)
                             ELSE @[b]]]

\* The outcomes of the jobs of a call: for each job, whether the balance of
\* the bot is below job.repay_amount and whether liquidate returns Ok.
JobOutcomes(n) == [1..n -> [balance_low : BOOLEAN, ok : BOOLEAN]]

\* One iteration of the loop over terminator_jobs: the liquidate call made
\* for the job (terminator_type 0 is none made) and the messages sent.
HandleJob(job, outcome, liquidator_enabled) ==
    IF liquidator_enabled
    THEN [job |-> job, balance_low |-> outcome.balance_low,
          terminator_type |-> IF outcome.balance_low THEN 2 ELSE 1,
          sent |-> <<IF outcome.balance_low THEN "refill" ELSE "starting",
                     IF outcome.ok THEN "liquidated" ELSE "cant liquidate">>]
    ELSE [job |-> job, balance_low |-> outcome.balance_low,
          terminator_type |-> 0,
          sent |-> <<"Liquidation required">>]

\* The loop as it would be if a failed liquidate call ended it.
RECURSIVE HandleJobsUntilFailure(_, _, _)
HandleJobsUntilFailure(jobs, outcomes, liquidator_enabled) ==
    IF jobs = <<>> THEN <<>>
    ELSE <<HandleJob(Head(jobs), Head(outcomes), liquidator_enabled)>>
           \o (IF liquidator_enabled /\ ~Head(outcomes).ok THEN <<>>
               ELSE HandleJobsUntilFailure(Tail(jobs), Tail(outcomes),
                                           liquidator_enabled))

\* for job in &terminator_jobs
RECURSIVE HandleJobs(_, _, _)
HandleJobs(jobs, outcomes, liquidator_enabled) ==
    IF jobs = <<>> THEN <<>>
    ELSE <<HandleJob(Head(jobs), Head(outcomes), liquidator_enabled)>>
           \o HandleJobs(Tail(jobs), Tail(outcomes), liquidator_enabled)

\* last_block_synced starts at a block of the chain; the chain is at that
\* block or one further.  error is the kind of the error update returned,
\* jobs the terminator jobs the managers pushed in the call in progress,
\* handled what the loop over the jobs did with them.
ServiceInit ==
    /\ RunNotStarted
    /\ token_pairs = NoPairs
    /\ tokens = {}
    /\ \E enabled \in BOOLEAN :
         call = [op |-> "idle", head |-> 0, last_block_synced |-> 0, to |-> 0,
                 pending |-> 1, updated |-> {},
                 applied |-> [m \in CreditManagers |-> [b \in 1..MaxBlock |-> 0]],
                 result |-> "none", error |-> "none",
                 liquidator_enabled |-> enabled,
                 jobs |-> <<>>, handled |-> <<>>]

NewBlock ==
    /\ call.head < MaxBlock
    /\ call' = [call EXCEPT !.head = @ + 1]
    /\ NoEvent

\* get_block_number fails (a NetError), or returns the number of a block of
\* the chain: its head, or an earlier block when the node lags behind.
GetBlockNumber ==
    /\ call.op = "idle"
    /\ \/ call' = [call EXCEPT !.result = "err", !.error = "NetError",
                               !.jobs = <<>>, !.handled = <<>>]
       \/ \E to \in 0..call.head :
            IF call.last_block_synced = to
            THEN call' = [call EXCEPT !.to = to, !.result = "ok",
                                      !.error = "none",
                                      !.jobs = <<>>, !.handled = <<>>]
            ELSE call' = [call EXCEPT !.op = "markets", !.to = to,
                                      !.pending = 1, !.updated = {},
                                      !.result = "none", !.error = "none",
                                      !.jobs = <<>>, !.handled = <<>>]
    /\ NoEvent

\* The loop as it would be if each manager's update set the checkpoint.
FixedLenderUpdateCheckpoints ==
    /\ call.op = "markets"
    /\ \/ \E pushed \in {<<>>, <<credit_managers[call.pending]>>} :
            call' = [call EXCEPT
                       !.applied = Handed(@, credit_managers[call.pending],
                                          call.last_block_synced, call.to),
                       !.updated = @ \cup {credit_managers[call.pending]},
                       !.last_block_synced = call.to,
                       !.jobs = @ \o pushed,
                       !.pending = @ + 1,
                       !.op = IF call.pending = Len(credit_managers)
                              THEN "jobs" ELSE "markets"]
       \/ \E error \in {"NetError", "Other"} :
            call' = [call EXCEPT !.op = "idle", !.result = "err",
                                 !.error = error]
    /\ NoEvent

\* One manager's update returns: Ok, having pushed a terminator job or
\* none, or an error of any kind, which update returns to the main loop.
FixedLenderUpdate ==
    /\ call.op = "markets"
    /\ \/ \E pushed \in {<<>>, <<credit_managers[call.pending]>>} :
            call' = [call EXCEPT
                       !.applied = Handed(@, credit_managers[call.pending],
                                          call.last_block_synced, call.to),
                       !.updated = @ \cup {credit_managers[call.pending]},
                       !.jobs = @ \o pushed,
                       !.pending = @ + 1,
                       !.op = IF call.pending = Len(credit_managers)
                              THEN "jobs" ELSE "markets"]
       \/ \E error \in {"NetError", "Other"} :
            call' = [call EXCEPT !.op = "idle", !.result = "err",
                                 !.error = error]
    /\ NoEvent

\* The terminator jobs, none of which returns from update, then the
\* checkpoint.
TerminatorJobs ==
    /\ call.op = "jobs"
    /\ \E outcomes \in JobOutcomes(Len(call.jobs)) :
         call' = [call EXCEPT
                    !.op = "idle", !.last_block_synced = call.to,
                    !.result = "ok",
                    !.handled = HandleJobs(call.jobs, outcomes,
                                           call.liquidator_enabled)]
    /\ NoEvent

ServiceNext == NewBlock \/ GetBlockNumber \/ FixedLenderUpdate \/ TerminatorJobs

ServiceSpec == ServiceInit /\ [][ServiceNext]_vars

\* C29: last_block_synced changes only to the head the call fetched and only
\* once the update of every manager has returned Ok in this call; when the
\* call returns an error last_block_synced is as it was.
C29_CheckpointAfterAllMarkets ==
    [][/\ call'.last_block_synced # call.last_block_synced =>
            /\ call.updated = CreditManagers
            /\ call'.last_block_synced = call.to
            /\ call'.result = "ok"
       /\ call'.result = "err" =>
            call'.last_block_synced = call.last_block_synced]_vars

\* A call failed after a manager was updated: the checkpoint is the old one.
C29_Witness ==
    /\ call.op = "idle"
    /\ call.result = "err"
    /\ call.updated = {1}
    /\ call.to = 2
    /\ call.last_block_synced = 0

\* C30: across the calls of update, failed ones included, no block is
\* handed twice to the same manager.
C30_NoBlockTwice ==
    \A m \in CreditManagers : \A b \in DOMAIN call.applied[m] :
        call.applied[m][b] <= 1

\* ------------------------------------------ the markets of the transaction
\* C35 as stated: the repay market and the seize market of a submitted
\* liquidation are those selected by the evaluation that gave its max_repay,
\* pool pair and fee.
C35_MarketsOfTheSameEvaluation ==
    InFlight =>
        /\ tx.repay_market = fresh.market_to_repay
        /\ tx.seize_market = IF fresh.market_to_seize = NoAddress
                             THEN ZeroAddress ELSE fresh.market_to_seize

\* ----------------------------------------- run, with the trace of its turns
\* The runs of the dispatcher that keep the trace, with no backup window or
\* a window of 1, liquidate_unprofitable set and the catalog that has pools.
TraceConfigs ==
    {c \in Configs : c.liquidate_unprofitable /\ c.catalog # <<>> /\ c.backup <= 1}

TraceInit ==
    /\ \E c \in TraceConfigs :
          /\ backup = c.backup
          /\ liquidate_unprofitable = c.liquidate_unprofitable
          /\ token_pairs = parse_token_pairs(c.catalog).pairs
          /\ tokens = parse_token_pairs(c.catalog).tokens
    /\ liquidations = [a \in {} |-> 0]
    /\ liquidations_iter = <<>>
    /\ eth_price = 0
    /\ gas_price = 0
    /\ liquidation_incentive = <<>>
    /\ markets = <<>>
    /\ price_feeds = [m \in {} |-> 0]
    /\ assets = [m \in {} |-> 0]
    /\ pending = 0
    /\ closed = FALSE
    /\ phase = "Idle"
    /\ cur = NoAddress
    /\ fresh = NoFresh
    /\ tx = NoTx
    /\ last = [Did("start", NoAddress) EXCEPT !.trace = TraceOf({})]
    /\ ticks = [only_updates |-> TRUE, count |-> NoTicks]
    /\ call = NoCall

TraceSpec == TraceInit /\ [][Next]_vars

\* The task of the dispatcher always takes its next step: the timeout
\* elapses when no batch comes, and every call of liquidate comes to its end
\* (the multicalls, the send and the confirmation each return).
FairSpec ==
    TraceSpec /\ WF_vars(Timeout \/ EvalDone \/ SendDone \/ ConfirmDone)

\* What the trace holds once the iterator made by the latest batch has
\* yielded every candidate of the table.
OnePass ==
    \A a \in Accounts :
        /\ last.trace[1].visited[a] = IF TableHas(a) THEN 1 ELSE 0
        /\ last.trace[1].fired[a] =
              IF TableHas(a) /\ OldEnough(liquidations[a].age, backup) THEN 1 ELSE 0

\* C32: after a batch is received, if no further batch comes while the
\* channel stays open and every liquidate call returns, the iterator comes
\* to its end having yielded every candidate of the table exactly once and
\* handed to liquidate exactly once those with B = 0 or age > B, and the
\* dispatcher is then with no iterator, where no candidate is yielded until
\* the next batch.
C32_OnePassThenQuiet ==
    /\ [](last.kind = "exhausted" => OnePass)
    /\ (last.kind = "batch") ~>
          (liquidations_iter = <<>> \/ pending > 0 \/ closed \/ phase = "Panicked")
    /\ [][(liquidations_iter = <<>> /\ liquidations_iter' = <<>>) =>
            (last'.kind \notin {"fired", "skipped"} /\ phase' = "Idle")]_vars

\* With a window of 1, one candidate of age 2 was handed to liquidate and
\* one of age 1 was not, and the iterator is at its end.
C32_Witness ==
    /\ last.kind = "exhausted"
    /\ liquidations_iter = <<>>
    /\ backup = 1
    /\ last.trace[1].visited = (21 :> 1) @@ (22 :> 1)
    /\ last.trace[1].fired = (21 :> 1) @@ (22 :> 0)
    /\ liquidations[21].age = 2
    /\ liquidations[22].age = 1

\* C33: between two batch receipts every candidate is handed to liquidate at
\* most once: the iterator is made by a batch receipt only, loses one
\* candidate per timeout and is not made again by a timeout.
C33_FiredAtMostOncePerBatch ==
    /\ \A a \in Accounts : last.trace[1].fired[a] <= 1
    /\ \A a \in Accounts : last.trace[1].visited[a] <= 1

C33_Witness ==
    /\ last.kind = "idle"
    /\ liquidations_iter = <<>>
    /\ \A a \in Accounts : last.trace[1].fired[a] = 1

\* C34 as stated: a candidate is handed to liquidate only if the batch
\* received last held its account.
C34_FiredOnlyIfReported ==
    \A a \in Accounts :
        last.trace[1].fired[a] > 0 => a \in last.trace[1].reported

\* C31 as stated: once update has returned an error that is no NetError the
\* main loop is over: update is not called again.
C31_OtherErrorEndsTheLoop ==
    [][(call.op = "idle" /\ call.result = "err" /\ call.error = "Other") =>
          (call'.op = "idle" /\ call'.result = "err" /\ call'.error = "Other")]_vars

\* C36 as stated: last_block_synced never decreases.
C36_CheckpointNeverDecreases ==
    [][call'.last_block_synced >= call.last_block_synced]_vars

\* C37: when update returns Ok, every job of the call was handled, in order:
\* with liquidator_enabled false by no liquidate call and one 'Liquidation
\* required' message; with it true by one liquidate call, of type 2 when the
\* balance is below the repay amount and of type 1 otherwise, whether or not
\* the calls before it failed; and the checkpoint is the head fetched.
C37_EveryJobHandledOnce ==
    (call.op = "idle" /\ call.result = "ok") =>
        /\ call.last_block_synced = call.to
        /\ Len(call.handled) = Len(call.jobs)
        /\ \A i \in 1..Len(call.jobs) :
             /\ call.handled[i].job = call.jobs[i]
             /\ IF call.liquidator_enabled
                THEN call.handled[i].terminator_type
                       = IF call.handled[i].balance_low THEN 2 ELSE 1
                ELSE /\ call.handled[i].terminator_type = 0
                     /\ call.handled[i].sent = <<"Liquidation required">>

\* Two jobs: the first liquidate call, of type 2, failed; the second was
\* made, of type 1.
C37_Witness ==
    /\ call.op = "idle"
    /\ call.result = "ok"
    /\ call.liquidator_enabled
    /\ Len(call.handled) = 2
    /\ call.handled[1].terminator_type = 2
    /\ call.handled[1].sent[2] = "cant liquidate"
    /\ call.handled[2].terminator_type = 1
    /\ call.last_block_synced = 1

====
